---- MODULE Spec2Model ----
(***************************************************************************)
(* The line-pair extractor of the invoice application:                     *)
(* parse_products_from_text (server.py) and the identical loop of          *)
(* extract_invoice_data (app.py).  Text, lines and every extracted string  *)
(* are sequences of one-character strings, so that splitting, stripping,   *)
(* the regular expressions and float() are computed on the characters.     *)
(***************************************************************************)
EXTENDS Integers, Sequences, FiniteSets, TLC

\* ------------------------------------------------------------------ bounds
\* Longest input text, in lines.
MaxLines == 4
\* Number of successive calls of the extractor on the same text.
MaxCalls == 2

\* ------------------------------------------------------- character classes
Digits == {"0", "1", "2", "3", "4", "5", "6", "7", "8", "9"}
\* The characters str.strip() removes and \s matches.
Whitespace == {" ", "\t", "\r", "\n"}

\* \s
IsSpace(c) == c \in Whitespace
\* \d
IsDigit(c) == c \in Digits
\* [\d\s/]
IsDimChar(c) == IsDigit(c) \/ IsSpace(c) \/ c = "/"
\* [\d\.]
IsNumChar(c) == IsDigit(c) \/ c = "."

\* Variant: the pattern is compiled without re.IGNORECASE.
exact(c) == c

\* The letters of the pattern's literals, folded as re.IGNORECASE folds them.
lower(c) ==
    CASE c = "S" -> "s"
      [] c = "E" -> "e"
      [] c = "R" -> "r"
      [] c = "I" -> "i"
      [] c = "X" -> "x"
      [] OTHER -> c

\* None, for pending, Width and Height.
None == <<>>

Min(S) == CHOOSE m \in S : \A k \in S : m <= k
Max(S) == CHOOSE m \in S : \A k \in S : m >= k

\* s[a..b] consists of characters of one class only (true when empty).
AllSpace(s, a, b) == \A k \in a..b : IsSpace(s[k])
AllDigit(s, a, b) == \A k \in a..b : IsDigit(s[k])
AllDimChar(s, a, b) == \A k \in a..b : IsDimChar(s[k])
AllNumChar(s, a, b) == \A k \in a..b : IsNumChar(s[k])

\* ---------------------------------------------------------- str operations
\* str.split(sep) for a one-character separator: the segments between the
\* separators, in order; a text without separator is one segment.
RECURSIVE split(_, _)
split(s, sep) ==
    IF \E k \in 1..Len(s) : s[k] = sep
    THEN LET k == Min({j \in 1..Len(s) : s[j] = sep})
         IN  <<SubSeq(s, 1, k - 1)>> \o split(SubSeq(s, k + 1, Len(s)), sep)
    ELSE <<s>>

\* str.strip(): leading and trailing whitespace removed.
strip(s) ==
    LET keep == {k \in 1..Len(s) : ~IsSpace(s[k])}
    IN  IF keep = {} THEN <<>> ELSE SubSeq(s, Min(keep), Max(keep))

\* str.startswith(prefix)
startswith(s, prefix) ==
    /\ Len(s) >= Len(prefix)
    /\ SubSeq(s, 1, Len(prefix)) = prefix

\* The literal lit stands in s at position p (case-sensitive).
LiteralAt(s, p, lit) ==
    /\ p >= 1
    /\ p + Len(lit) - 1 <= Len(s)
    /\ SubSeq(s, p, p + Len(lit) - 1) = lit

\* The literal lit stands in s at position p, letter case ignored.
LiteralAtIgnoreCase(s, p, lit) ==
    /\ p >= 1
    /\ p + Len(lit) - 1 <= Len(s)
    /\ \A k \in 1..Len(lit) : lower(s[p + k - 1]) = lower(lit[k])

\* --------------------------------------------------------------- literals
FRAME == <<"F", "r", "a", "m", "e", ":">>
WIDTH == <<"W", "i", "d", "t", "h", " ", "=">>
HEIGHT == <<"H", "e", "i", "g", "h", "t", " ", "=">>
SERIES == <<"S", "e", "r", "i", "e", "s">>
SERIES_SUFFIX == <<" ", "S", "e", "r", "i", "e", "s">>
CWS == <<"C", "W", "S">>

\* ------------------------------------------------------------ desc_pattern
\* ^(\d{4})\s+Series\s+(.+?)\s+([\d\s/]+)\s*x\s*([\d\s/]+)\s*-   (IGNORECASE)
\* The part of the pattern after group 2, \s+([\d\s/]+)\s*x\s*([\d\s/]+)\s*-,
\* matches in s from position p on.
DescTail(s, p) ==
    \E d \in p..Len(s) :
        /\ AllSpace(s, p, d)
        /\ \E e \in (d + 1)..Len(s) :
            /\ AllDimChar(s, d + 1, e)
            /\ \E f \in e..Len(s) :
                /\ AllSpace(s, e + 1, f)
                /\ LiteralAtIgnoreCase(s, f + 1, <<"x">>)
                /\ \E g \in (f + 1)..Len(s) :
                    /\ AllSpace(s, f + 2, g)
                    /\ \E h \in (g + 1)..Len(s) :
                        /\ AllDimChar(s, g + 1, h)
                        /\ \E k \in h..Len(s) :
                            /\ AllSpace(s, h + 1, k)
                            /\ LiteralAt(s, k + 1, <<"-">>)

\* The matches of the pattern up to group 2, as <<b, c>>: the second \s+
\* ends at b and group 2 is s[b+1..c]; the first \s+ ends at a.
DescMatches(s) ==
    IF Len(s) >= 4 /\ AllDigit(s, 1, 4)
    THEN {bc \in (1..Len(s)) \X (1..Len(s)) :
            \E a \in 5..Len(s) :
                /\ AllSpace(s, 5, a)
                /\ LiteralAtIgnoreCase(s, a + 1, SERIES)
                /\ bc[1] >= a + 1 + Len(SERIES)
                /\ AllSpace(s, a + 1 + Len(SERIES), bc[1])
                /\ bc[2] >= bc[1] + 1
                /\ DescTail(s, bc[2] + 1)}
    ELSE {}

\* desc_pattern.match(line) is not None
desc_match(s) == DescMatches(s) # {}

\* m.group(1)
group1(s) == SubSeq(s, 1, 4)

\* m.group(2): the backtracking search tries the longest second \s+ first
\* (greedy) and, for it, the shortest group 2 first (.+? is lazy).
group2(s) ==
    LET b == Max({bc[1] : bc \in DescMatches(s)})
        c == Min({bc[2] : bc \in {x \in DescMatches(s) : x[1] = b}})
    IN  SubSeq(s, b + 1, c)

\* The dictionary a description line puts into pending.
DescDict(s) ==
    [SeriesID |-> strip(group1(s)) \o SERIES_SUFFIX,
     WindowStyle |-> strip(group2(s))]

\* ---------------------------------------------- re.search(kw\s*([\d\.]+))
\* Start positions at which  kw\s*([\d\.]+)  matches in s.
NumMatchStarts(s, kw) ==
    {p \in 1..Len(s) :
        /\ LiteralAt(s, p, kw)
        /\ \E q \in (p + Len(kw))..Len(s) :
            /\ AllSpace(s, p + Len(kw), q - 1)
            /\ IsNumChar(s[q])}

\* re.search(...) is not None
num_match(s, kw) == NumMatchStarts(s, kw) # {}

\* group(1) of the leftmost match: \s* takes all the whitespace and
\* [\d\.]+ the longest run of digits and dots after it.
num_group(s, kw) ==
    LET p == Min(NumMatchStarts(s, kw))
        q == Min({j \in (p + Len(kw))..Len(s) : ~IsSpace(s[j])})
        r == Max({j \in q..Len(s) : AllNumChar(s, q, j)})
    IN  SubSeq(s, q, r)

\* ------------------------------------------------------------------ float
DigitVal(c) ==
    CASE c = "0" -> 0 [] c = "1" -> 1 [] c = "2" -> 2 [] c = "3" -> 3
      [] c = "4" -> 4 [] c = "5" -> 5 [] c = "6" -> 6 [] c = "7" -> 7
      [] c = "8" -> 8 [] c = "9" -> 9

\* float(t) raises ValueError: of the strings [\d\.]+ can capture, Python
\* parses those with at most one dot and at least one digit.
float_raises(t) ==
    \/ Cardinality({k \in 1..Len(t) : t[k] = "."}) > 1
    \/ ~\E k \in 1..Len(t) : IsDigit(t[k])

RECURSIVE DigitsValue(_)
DigitsValue(ds) ==
    IF ds = <<>> THEN 0
    ELSE DigitsValue(SubSeq(ds, 1, Len(ds) - 1)) * 10 + DigitVal(ds[Len(ds)])

RECURSIVE Reduce(_, _)
Reduce(m, scale) ==
    IF scale > 0 /\ m % 10 = 0 THEN Reduce(m \div 10, scale - 1) ELSE <<m, scale>>

\* float(t) of a string that parses: the number m / 10^scale in lowest
\* decimal terms, as <<m, scale>>, so that "7", "7." and "07.0" are equal.
float(t) ==
    LET dots == {k \in 1..Len(t) : t[k] = "."}
        scale == IF dots = {} THEN 0 ELSE Len(t) - Min(dots)
        ds == SelectSeq(t, IsDigit)
    IN  Reduce(DigitsValue(ds), scale)

\* line.split(',')[-1].strip()
colour(s) == LET parts == split(s, ",") IN strip(parts[Len(parts)])

\* ------------------------------------------------------------ input texts
DescA == <<"7", "3", "0", "0", " ", "S", "e", "r", "i", "e", "s", " ", "A", " ", "1", " ", "x", " ", "2", " ", "-">>
DescB == <<"8", "1", "0", "0", " ", "s", "e", "r", "i", "e", "s", " ", "B", " ", "C", " ", "3", "/", "4", " ", "x", " ", "5", " ", "-", " ", "F">>
FrameFull == <<"F", "r", "a", "m", "e", ":", " ", "W", "i", "d", "t", "h", " ", "=", " ", "7", ",", " ", "H", "e", "i", "g", "h", "t", " ", "=", " ", "3", ".", "5", ",", " ", "B", "r">>
FrameNoWidth == <<" ", "F", "r", "a", "m", "e", ":", " ", "H", "e", "i", "g", "h", "t", " ", "=", " ", "2", ",", " ">>
FrameBadNumber == <<"F", "r", "a", "m", "e", ":", " ", "W", "i", "d", "t", "h", " ", "=", " ", "1", ".", "2", ".", "3", ",", " ", "R">>
FrameNoHeight == <<"F", "r", "a", "m", "e", ":", " ", "W", "i", "d", "t", "h", " ", "=", " ", "1", "2", ".", ",", " ", "W">>
OtherLine == <<"T", "o", "t", "a", "l", " ", "9", " ", "x", " ", "9", " ", "-">>
EmptyLine == <<>>

\* The lines the input texts are made of.
LineSet ==
    {DescA, DescB, FrameFull, FrameNoWidth, FrameNoHeight, FrameBadNumber,
     OtherLine, EmptyLine}

\* '\n'.join(ls)
RECURSIVE join(_)
join(ls) ==
    IF Len(ls) = 0 THEN <<>>
    ELSE IF Len(ls) = 1 THEN ls[1]
    ELSE ls[1] \o <<"\n">> \o join(Tail(ls))

\* The input texts: up to MaxLines lines of LineSet.
Texts == {join(ls) : ls \in UNION {[1..n -> LineSet] : n \in 0..MaxLines}}

\* A frame line whose number does not parse and whose last comma segment
\* is whitespace only.
FrameBlankBad == <<"F", "r", "a", "m", "e", ":", " ", "W", "i", "d", "t", "h", " ", "=", " ", ".", ",", " ">>

\* The lines of the texts of concurrent and of paired calls.
PairLineSet == {DescA, DescB, FrameFull, FrameBlankBad}

\* Longest text of a concurrent or paired call, in lines.
MaxPairLines == 2

\* The texts of concurrent calls: up to MaxPairLines lines of PairLineSet.
PairLineSeqs == UNION {[1..n -> PairLineSet] : n \in 0..MaxPairLines}
PairTexts == {join(ls) : ls \in PairLineSeqs}

\* Whitespace put around a line, and lines of whitespace only.
PAD_LEFT == <<" ", "\t">>
PAD_RIGHT == <<" ", "\r">>
BlankLines == {<<>>, <<" ", "\t">>}

\* ls with the line b inserted after its first k lines.
InsertLine(ls, k, b) == SubSeq(ls, 1, k) \o <<b>> \o SubSeq(ls, k + 1, Len(ls))

\* The line sequences got from ls by inserting one empty or whitespace-only
\* line anywhere, or by adding leading, trailing or both kinds of
\* whitespace to one line.
PadVariants(ls) ==
    {InsertLine(ls, k, b) : k \in 0..Len(ls), b \in BlankLines}
    \cup {[ls EXCEPT ![k] = PAD_LEFT \o ls[k]] : k \in 1..Len(ls)}
    \cup {[ls EXCEPT ![k] = ls[k] \o PAD_RIGHT] : k \in 1..Len(ls)}
    \cup {[ls EXCEPT ![k] = PAD_LEFT \o ls[k] \o PAD_RIGHT] : k \in 1..Len(ls)}

\* Spellings of the word 'Series' in another letter case.
SeriesSpellings ==
    {<<"s", "e", "r", "i", "e", "s">>, <<"S", "E", "R", "I", "E", "S">>,
     <<"S", "e", "r", "i", "e", "s">>, <<"s", "E", "r", "I", "e", "S">>}

\* The line l with the word 'Series' after its four digits respelled as w;
\* a line without that word there is left as it is.
Respell(l, w) ==
    LET at == {p \in 6..Len(l) : AllDigit(l, 1, 4) /\ AllSpace(l, 5, p - 1)
                                  /\ LiteralAtIgnoreCase(l, p, SERIES)}
    IN  IF at = {} THEN l
        ELSE LET p == Min(at)
             IN  SubSeq(l, 1, p - 1) \o w \o SubSeq(l, p + Len(w), Len(l))

\* The line sequences got from ls by respelling 'Series' on one line.
CaseVariants(ls) ==
    {[ls EXCEPT ![k] = Respell(ls[k], w)] : k \in 1..Len(ls), w \in SeriesSpellings}

\* The pairs <<text, padded text>> and <<text, respelled text>>.
PadPairs == UNION {{<<join(ls), join(v)>> : v \in PadVariants(ls)} : ls \in PairLineSeqs}
CasePairs == UNION {{<<join(ls), join(v)>> : v \in CaseVariants(ls)} : ls \in PairLineSeqs}

\* The lines that occur in the input texts, stripped and as they are.
NormalLines ==
    LET raw == LineSet \cup PairLineSet \cup BlankLines
               \cup UNION {{v[k] : k \in 1..Len(v)} :
                            v \in UNION {PadVariants(ls) \cup CaseVariants(ls) :
                                          ls \in PairLineSeqs}}
    IN  raw \cup {strip(l) : l \in raw}

\* What the loop body reads off a line by pattern matching: m (None or
\* <<the dictionary of the description>>), line.startswith('Frame:'),
\* w_match and h_match (None or <<group(1)>>) and the colour.
LineScan(s) ==
    [m |-> IF desc_match(s) THEN <<DescDict(s)>> ELSE None,
     frame |-> startswith(s, FRAME),
     w_match |-> IF num_match(s, WIDTH) THEN <<num_group(s, WIDTH)>> ELSE None,
     h_match |-> IF num_match(s, HEIGHT) THEN <<num_group(s, HEIGHT)>> ELSE None,
     colour |-> colour(s)]

\* LineScan of every line of the texts: the patterns are evaluated once
\* for each distinct line.
Scanned == [s \in NormalLines |-> LineScan(s)]

\* desc_pattern.match(line), as None or <<dictionary>>
m_of(line) == Scanned[line].m

\* line.startswith('Frame:')
is_frame(line) == Scanned[line].frame

\* float(x.group(1)) if x else None, for x = w_match or h_match
to_float(x) == IF x = None THEN None ELSE float(x[1])

\* float(x.group(1)) raises ValueError
raises(x) == x # None /\ float_raises(x[1])

width(line) == to_float(Scanned[line].w_match)
height(line) == to_float(Scanned[line].h_match)

\* Building the record of this line raises ValueError.
line_raises(line) == raises(Scanned[line].w_match) \/ raises(Scanned[line].h_match)

\* ------------------------------------------------------------------ state
VARIABLES
    text,       \* the argument of the calls
    lines,      \* the stripped lines of the running call
    i,          \* the position of the for loop in lines
    pending,    \* None or <<the dictionary of the last description>>
    products,   \* the records emitted by the running call
    pc,         \* "call": between calls, "loop": inside the for loop
    results     \* the outcomes of the finished calls, in order

VARIABLES
    inv,        \* the concurrent calls: text, locals, position and outcome of each
    fs,         \* the files on disk: path -> content
    req         \* the POST requests being handled: upload, position and response

\* The parts of the state that the successive calls of one extractor do
\* not touch.
service == <<inv, fs, req>>

vars == <<text, lines, i, pending, products, pc, results, inv, fs, req>>

Init ==
    /\ text \in Texts
    /\ lines = <<>>
    /\ i = 0
    /\ pending = None
    /\ products = <<>>
    /\ pc = "call"
    /\ results = <<>>
    /\ inv = <<>>
    /\ fs = <<>>
    /\ req = <<>>

\* Variant: the lines are split but not stripped.
UnstrippedLines(t) == split(t, "\n")

\* lines = [line.strip() for line in text.split('\n')]
SplitLines(t) ==
    LET raw == split(t, "\n") IN [k \in 1..Len(raw) |-> strip(raw[k])]

\* Variant: pending starts as a placeholder dictionary instead of None.
PlaceholderPending == <<[SeriesID |-> <<>>, WindowStyle |-> <<>>]>>

\* Variant: pending lives outside the function and survives the call.
StalePending == pending

\* pending: dict | None = None
InitialPending == None

\* products: list[dict] = []
InitialProducts == <<>>

\* The call begins: the locals are set up and the loop is entered.
Enter ==
    /\ pc = "call"
    /\ Len(results) < MaxCalls
    /\ lines' = SplitLines(text)
    /\ products' = InitialProducts
    /\ pending' = InitialPending
    /\ i' = 1
    /\ pc' = "loop"
    /\ UNCHANGED <<text, results>>
    /\ UNCHANGED service

InLoop == pc = "loop" /\ i <= Len(lines)

\* if not line: continue
SkipEmpty ==
    /\ InLoop
    /\ lines[i] = <<>>
    /\ i' = i + 1
    /\ UNCHANGED <<text, lines, pending, products, pc, results>>
    /\ UNCHANGED service

\* Variant: a description line fills pending only when it is empty.
KeepFirstDesc(old, new) == IF old = None THEN <<new>> ELSE old

\* pending = {...} on a description line: any earlier value is overwritten.
PendingAfterDesc(old, new) == <<new>>

\* if m: pending = {...}; continue
MatchDesc ==
    /\ InLoop
    /\ lines[i] # <<>>
    /\ m_of(lines[i]) # None
    /\ pending' = PendingAfterDesc(pending, m_of(lines[i])[1])
    /\ i' = i + 1
    /\ UNCHANGED <<text, lines, products, pc, results>>
    /\ UNCHANGED service

\* if pending and line.startswith('Frame:')
qualifies(p, line) == p # None /\ is_frame(line)

\* Variant: the manufacturer field is filled from the input, with the
\* colour of the frame line.
RecordFromInput(p, line) ==
    [Manufacturer |-> Scanned[line].colour,
     FrameColor |-> Scanned[line].colour,
     SeriesID |-> p[1].SeriesID,
     WindowStyle |-> p[1].WindowStyle,
     Width |-> width(line),
     Height |-> height(line)]

\* The dictionary appended for a qualifying frame line.
Record(p, line) ==
    [Manufacturer |-> CWS,
     FrameColor |-> Scanned[line].colour,
     SeriesID |-> p[1].SeriesID,
     WindowStyle |-> p[1].WindowStyle,
     Width |-> width(line),
     Height |-> height(line)]

\* Variant: the record is inserted at the front.
PrependProduct(ps, r) == <<r>> \o ps

\* products.append(r)
AppendProduct(ps, r) == Append(ps, r)

\* Variant: pending is not cleared after the append.
KeptPending(p) == p

\* pending = None after the append
ClearedPending(p) == None

\* A qualifying frame line whose numbers parse: the record is appended and
\* pending cleared.
FrameLine ==
    /\ InLoop
    /\ lines[i] # <<>>
    /\ m_of(lines[i]) = None
    /\ qualifies(pending, lines[i])
    /\ ~line_raises(lines[i])
    /\ products' = AppendProduct(products, Record(pending, lines[i]))
    /\ pending' = ClearedPending(pending)
    /\ i' = i + 1
    /\ UNCHANGED <<text, lines, pc, results>>
    /\ UNCHANGED service

\* A qualifying frame line on which float() raises ValueError: the exception
\* leaves the function, which returns nothing.
FrameRaise ==
    /\ InLoop
    /\ lines[i] # <<>>
    /\ m_of(lines[i]) = None
    /\ qualifies(pending, lines[i])
    /\ line_raises(lines[i])
    /\ results' = Append(results, [raised |-> TRUE, value |-> <<>>])
    /\ pc' = "call"
    /\ UNCHANGED <<text, lines, i, pending, products>>
    /\ UNCHANGED service

\* Variant: "pending = None" is run for every line that is no description.
DroppedPending(p) == None

\* pending after a line that is neither a description line nor a
\* qualifying frame line.
PendingAfterOther(p) == p

\* Any other line: the loop body falls through.
Ignore ==
    /\ InLoop
    /\ lines[i] # <<>>
    /\ m_of(lines[i]) = None
    /\ ~qualifies(pending, lines[i])
    /\ pending' = PendingAfterOther(pending)
    /\ i' = i + 1
    /\ UNCHANGED <<text, lines, products, pc, results>>
    /\ UNCHANGED service

\* return products
Return ==
    /\ pc = "loop"
    /\ i > Len(lines)
    /\ results' = Append(results, [raised |-> FALSE, value |-> products])
    /\ pc' = "call"
    /\ UNCHANGED <<text, lines, i, pending, products>>
    /\ UNCHANGED service

Next ==
    \/ Enter
    \/ SkipEmpty
    \/ MatchDesc
    \/ FrameLine
    \/ FrameRaise
    \/ Ignore
    \/ Return

Spec == Init /\ [][Next]_vars

\* ------------------------------------- the copy of the scan in app.py
\* lines = [line.strip() for line in text.split('\n')]
app_SplitLines(t) ==
    LET raw == split(t, "\n") IN [k \in 1..Len(raw) |-> strip(raw[k])]

\* products: list[dict] = []
app_InitialProducts == <<>>

\* pending: dict | None = None
app_InitialPending == None

\* The dictionary built from match.group(1) and match.group(2).
app_DescDict(s) ==
    [SeriesID |-> strip(group1(s)) \o SERIES_SUFFIX,
     WindowStyle |-> strip(group2(s))]

\* What the loop body of extract_invoice_data reads off a line: match,
\* line.startswith('Frame:'), w_match, h_match and the colour.
app_LineScan(s) ==
    [m |-> IF desc_match(s) THEN <<app_DescDict(s)>> ELSE None,
     frame |-> startswith(s, FRAME),
     w_match |-> IF num_match(s, WIDTH) THEN <<num_group(s, WIDTH)>> ELSE None,
     h_match |-> IF num_match(s, HEIGHT) THEN <<num_group(s, HEIGHT)>> ELSE None,
     colour |-> colour(s)]

AppScanned == [s \in NormalLines |-> app_LineScan(s)]

\* match = desc_pattern.match(line), as None or <<dictionary>>
match_of(line) == AppScanned[line].m

\* pending = {...} on a description line
app_PendingAfterDesc(old, new) == <<new>>

\* if pending and line.startswith('Frame:')
app_qualifies(p, line) == p # None /\ AppScanned[line].frame

app_width(line) == to_float(AppScanned[line].w_match)
app_height(line) == to_float(AppScanned[line].h_match)

\* float(w_match.group(1)) or float(h_match.group(1)) raises ValueError
app_line_raises(line) ==
    raises(AppScanned[line].w_match) \/ raises(AppScanned[line].h_match)

\* The dictionary appended for a qualifying frame line.
app_Record(p, line) ==
    [Manufacturer |-> CWS,
     FrameColor |-> AppScanned[line].colour,
     SeriesID |-> p[1].SeriesID,
     WindowStyle |-> p[1].WindowStyle,
     Width |-> app_width(line),
     Height |-> app_height(line)]

\* products.append(r)
app_AppendProduct(ps, r) == Append(ps, r)

\* Variant: the copy in app.py does not clear pending after the append.
app_KeptPending(p) == p

\* pending = None after the append
app_ClearedPending(p) == None

\* pending after a line that is neither a description line nor a
\* qualifying frame line
app_PendingAfterOther(p) == p

\* ----------------------------------------------- the two copies, by site
\* The function a call runs: parse_products_from_text of server.py or the
\* loop of extract_invoice_data of app.py.
Sites == {"server", "app"}

SplitOf(site, t) == IF site = "server" THEN SplitLines(t) ELSE app_SplitLines(t)
FirstProducts(site) == IF site = "server" THEN InitialProducts ELSE app_InitialProducts
FirstPending(site) == IF site = "server" THEN InitialPending ELSE app_InitialPending
MatchOf(site, line) == IF site = "server" THEN m_of(line) ELSE match_of(line)
AfterDesc(site, old, new) ==
    IF site = "server" THEN PendingAfterDesc(old, new) ELSE app_PendingAfterDesc(old, new)
Qualifies(site, p, line) ==
    IF site = "server" THEN qualifies(p, line) ELSE app_qualifies(p, line)
Raises(site, line) ==
    IF site = "server" THEN line_raises(line) ELSE app_line_raises(line)
RecordOf(site, p, line) ==
    IF site = "server" THEN Record(p, line) ELSE app_Record(p, line)
Appended(site, ps, r) ==
    IF site = "server" THEN AppendProduct(ps, r) ELSE app_AppendProduct(ps, r)
Cleared(site, p) ==
    IF site = "server" THEN ClearedPending(p) ELSE app_ClearedPending(p)
AfterOther(site, p) ==
    IF site = "server" THEN PendingAfterOther(p) ELSE app_PendingAfterOther(p)

\* The outcome of one call run from line k on, with nothing else running:
\* the returned record sequence, or the ValueError that leaves the call.
RECURSIVE scan_from(_, _, _, _, _)
scan_from(site, ls, k, pend, prods) ==
    IF k > Len(ls) THEN [raised |-> FALSE, value |-> prods]
    ELSE IF ls[k] = <<>> THEN scan_from(site, ls, k + 1, pend, prods)
    ELSE IF MatchOf(site, ls[k]) # None
        THEN scan_from(site, ls, k + 1, AfterDesc(site, pend, MatchOf(site, ls[k])[1]), prods)
    ELSE IF ~Qualifies(site, pend, ls[k])
        THEN scan_from(site, ls, k + 1, AfterOther(site, pend), prods)
    ELSE IF Raises(site, ls[k]) THEN [raised |-> TRUE, value |-> <<>>]
    ELSE scan_from(site, ls, k + 1, Cleared(site, pend),
                   Appended(site, prods, RecordOf(site, pend, ls[k])))

run_alone(site, t) ==
    scan_from(site, SplitOf(site, t), 1, FirstPending(site), FirstProducts(site))

\* ------------------------------------------------------ concurrent calls
\* Two calls run with their steps interleaved. inv[p] is call p: the
\* function it runs (site), its argument, its locals, its position and, once
\* it is over, its outcome.
Calls == {1, 2}

\* The functions the two calls run.
SitePairs == {<<"server", "app">>, <<"server", "server">>, <<"app", "app">>}

\* Line sequences of their own for the second call: the empty text, the
\* texts of one line and two texts of a description with its frame line.
OwnSeqs ==
    {<<>>} \cup {<<l>> : l \in PairLineSet}
    \cup {<<DescA, FrameFull>>, <<DescB, FrameFull>>}

\* The second call gets the text of the first, a padded or respelled
\* variant of it, or a text of its own.
SecondSeqs(ls) == {ls} \cup PadVariants(ls) \cup CaseVariants(ls) \cup OwnSeqs

\* A call that has not begun.
NewCall(site, t) ==
    [site |-> site, text |-> t, lines |-> <<>>, i |-> 0, pending |-> None,
     products |-> <<>>, pc |-> "call", out |-> None]

PairInit ==
    /\ text = <<>>
    /\ lines = <<>>
    /\ i = 0
    /\ pending = None
    /\ products = <<>>
    /\ pc = "off"
    /\ results = <<>>
    /\ fs = <<>>
    /\ req = <<>>
    /\ \E st \in SitePairs, ls \in PairLineSeqs :
         \E ls2 \in SecondSeqs(ls) :
            inv = <<NewCall(st[1], join(ls)), NewCall(st[2], join(ls2))>>

\* Variant: pending and products are module-level, one slot for all calls.
SharedSlot(p) == 1

\* pending and products are locals: each call has them in its own frame.
Slot(p) == p

\* The locals of call p, as it reads them.
pending_of(p) == inv[Slot(p)].pending
products_of(p) == inv[Slot(p)].products

\* Call p is inside the for loop, at a line.
PairInLoop(p) == inv[p].pc = "loop" /\ inv[p].i <= Len(inv[p].lines)

\* The line call p is at.
line_of(p) == inv[p].lines[inv[p].i]

sequential == <<text, lines, i, pending, products, pc, results>>

\* Call p begins: its locals are set up and the loop is entered.
PairEnter(p) ==
    /\ inv[p].pc = "call"
    /\ inv' = [inv EXCEPT ![p].lines = SplitOf(inv[p].site, inv[p].text),
                          ![p].i = 1,
                          ![p].pc = "loop",
                          ![Slot(p)].products = FirstProducts(inv[p].site),
                          ![Slot(p)].pending = FirstPending(inv[p].site)]
    /\ UNCHANGED <<sequential, fs, req>>

\* if not line: continue
PairSkipEmpty(p) ==
    /\ PairInLoop(p)
    /\ line_of(p) = <<>>
    /\ inv' = [inv EXCEPT ![p].i = inv[p].i + 1]
    /\ UNCHANGED <<sequential, fs, req>>

\* if m: pending = {...}; continue
PairMatchDesc(p) ==
    /\ PairInLoop(p)
    /\ line_of(p) # <<>>
    /\ MatchOf(inv[p].site, line_of(p)) # None
    /\ inv' = [inv EXCEPT ![p].i = inv[p].i + 1,
                          ![Slot(p)].pending =
                              AfterDesc(inv[p].site, pending_of(p),
                                        MatchOf(inv[p].site, line_of(p))[1])]
    /\ UNCHANGED <<sequential, fs, req>>

\* A qualifying frame line whose numbers parse: the record is appended and
\* pending cleared.
PairFrameLine(p) ==
    /\ PairInLoop(p)
    /\ line_of(p) # <<>>
    /\ MatchOf(inv[p].site, line_of(p)) = None
    /\ Qualifies(inv[p].site, pending_of(p), line_of(p))
    /\ ~Raises(inv[p].site, line_of(p))
    /\ inv' = [inv EXCEPT ![p].i = inv[p].i + 1,
                          ![Slot(p)].products =
                              Appended(inv[p].site, products_of(p),
                                       RecordOf(inv[p].site, pending_of(p), line_of(p))),
                          ![Slot(p)].pending = Cleared(inv[p].site, pending_of(p))]
    /\ UNCHANGED <<sequential, fs, req>>

\* A qualifying frame line on which float() raises ValueError: the
\* exception ends the call.
PairFrameRaise(p) ==
    /\ PairInLoop(p)
    /\ line_of(p) # <<>>
    /\ MatchOf(inv[p].site, line_of(p)) = None
    /\ Qualifies(inv[p].site, pending_of(p), line_of(p))
    /\ Raises(inv[p].site, line_of(p))
    /\ inv' = [inv EXCEPT ![p].pc = "done",
                          ![p].out = <<[raised |-> TRUE, value |-> <<>>]>>]
    /\ UNCHANGED <<sequential, fs, req>>

\* Any other line: the loop body falls through.
PairIgnore(p) ==
    /\ PairInLoop(p)
    /\ line_of(p) # <<>>
    /\ MatchOf(inv[p].site, line_of(p)) = None
    /\ ~Qualifies(inv[p].site, pending_of(p), line_of(p))
    /\ inv' = [inv EXCEPT ![p].i = inv[p].i + 1,
                          ![Slot(p)].pending = AfterOther(inv[p].site, pending_of(p))]
    /\ UNCHANGED <<sequential, fs, req>>

\* return products
PairReturn(p) ==
    /\ inv[p].pc = "loop"
    /\ inv[p].i > Len(inv[p].lines)
    /\ inv' = [inv EXCEPT ![p].pc = "done",
                          ![p].out = <<[raised |-> FALSE, value |-> products_of(p)]>>]
    /\ UNCHANGED <<sequential, fs, req>>

PairNext ==
    \E p \in Calls :
        \/ PairEnter(p)
        \/ PairSkipEmpty(p)
        \/ PairMatchDesc(p)
        \/ PairFrameLine(p)
        \/ PairFrameRaise(p)
        \/ PairIgnore(p)
        \/ PairReturn(p)

SpecPair == PairInit /\ [][PairNext]_vars

\* ------------------------------------------------------ the POST handlers
\* Uploaded file names.
NAME_EMPTY == <<>>
NAME_SPACE == <<"a", " ", "b", ".", "p", "d", "f">>
NAME_UNDERSCORE == <<"a", "_", "b", ".", "p", "d", "f">>
NAME_UPPER == <<"a", "_", "b", ".", "P", "D", "F">>
NAME_TXT == <<"d", ".", "t", "x", "t">>
Names == {NAME_EMPTY, NAME_SPACE, NAME_UNDERSCORE, NAME_UPPER, NAME_TXT}

\* Uploaded files: a PDF that converts to a text, or bytes on which the
\* conversion raises.
Pdf(t) == [ok |-> TRUE, text |-> t]
Corrupt == [ok |-> FALSE, text |-> <<>>]
Uploads ==
    {Pdf(join(<<DescA, FrameFull>>)), Pdf(join(<<DescB, FrameFull>>)),
     Pdf(join(<<DescA, FrameBlankBad>>)), Pdf(join(<<FrameFull>>)),
     Pdf(<<" ", "\n">>), Corrupt}

\* The POST requests: without Content-Type header, without a 'file' part,
\* or with a file of some name and content.
Posts ==
    {[form |-> f, name |-> <<>>, upload |-> Corrupt] :
        f \in {"no_content_type", "no_file_part"}}
    \cup {[form |-> "file", name |-> n, upload |-> u] : n \in Names, u \in Uploads}

\* str.lower(), of the letters of the file names.
str_lower(s) ==
    [k \in 1..Len(s) |->
        CASE s[k] = "P" -> "p" [] s[k] = "D" -> "d" [] s[k] = "F" -> "f"
          [] OTHER -> s[k]]

PDF == <<"p", "d", "f">>
DOT_PDF == <<".", "p", "d", "f">>

\* '.' in filename and filename.rsplit('.', 1)[1].lower() in ALLOWED_EXTENSIONS
allowed_file(filename) ==
    LET dots == {k \in 1..Len(filename) : filename[k] = "."}
    IN  /\ dots # {}
        /\ str_lower(SubSeq(filename, Max(dots) + 1, Len(filename))) = PDF

\* werkzeug's secure_filename, for names of letters, digits, '.', '_', '-'
\* and spaces: the words of the name joined by '_'.
secure_filename(filename) ==
    LET words == SelectSeq(split(filename, " "), LAMBDA w : w # <<>>)
        joined[k \in 0..Len(words)] ==
            IF k = 0 THEN <<>>
            ELSE IF k = 1 THEN words[1]
            ELSE joined[k - 1] \o <<"_">> \o words[k]
    IN  joined[Len(words)]

\* os.path.basename(filename)
basename(filename) ==
    LET slashes == {k \in 1..Len(filename) : filename[k] = "/"}
    IN  IF slashes = {} THEN filename
        ELSE SubSeq(filename, Max(slashes) + 1, Len(filename))

\* filename.lower().endswith('.pdf')
endswith_pdf(filename) ==
    /\ Len(filename) >= Len(DOT_PDF)
    /\ SubSeq(str_lower(filename), Len(filename) - Len(DOT_PDF) + 1, Len(filename)) = DOT_PDF

\* pdfminer's extract_text on a file: the text, or an exception.
extract_text(content) ==
    IF content.ok THEN [raised |-> FALSE, text |-> content.text]
    ELSE [raised |-> TRUE, text |-> <<>>]

\* Variant: the conversion is called without try/except.
UnguardedExtractText(content) == extract_text(content)

\* server.py: try: return extract_text(pdf_path); except Exception: return ''
extract_text_from_pdf(content) ==
    LET r == extract_text(content)
    IN  IF r.raised THEN [raised |-> FALSE, text |-> <<>>] ELSE r

\* app.py: try: text = extract_text(pdf_path); except Exception: text = ''
app_extract_text(content) ==
    LET r == extract_text(content)
    IN  IF r.raised THEN [raised |-> FALSE, text |-> <<>>] ELSE r

\* The file handling of a request: the threads of app.py's index() save the
\* upload under its sanitized name in UPLOAD_FOLDER.
UPLOAD_FOLDER == <<"u", "p", "l", "o", "a", "d", "s", "/">>
filepath(filename) == UPLOAD_FOLDER \o filename

\* tempfile.NamedTemporaryFile(delete=False, suffix='.pdf'): a path no
\* other file has.
tmp_pdf_path(r) == <<"t", "m", "p">> \o (IF r = 1 THEN <<"1">> ELSE <<"2">>) \o DOT_PDF

\* The file system after path is written with content.
Written(files, path, content) ==
    [x \in DOMAIN files \cup {path} |-> IF x = path THEN content ELSE files[x]]

\* The file system after os.unlink(path).
Unlinked(files, path) == [x \in DOMAIN files \ {path} |-> files[x]]

\* req[r] is request r: the program that handles it (site), what was
\* posted, the position of its handler, the path of its file, the text
\* converted, whether the conversion raised, the outcome of the scan (None
\* when the scan was not run) and the response.
Requests == {1, 2}

\* The programs that handle the two requests: threads of app.py, or
\* server.py, whose HTTPServer handles one request at a time.
HandlerPairs == {<<"app", "app">>, <<"server", "server">>, <<"app", "server">>}

NewRequest(site, post) ==
    [site |-> site, post |-> post, pc |-> "new", path |-> <<>>, text |-> <<>>,
     failed |-> FALSE, out |-> None, resp |-> "none"]

WebInit ==
    /\ text = <<>>
    /\ lines = <<>>
    /\ i = 0
    /\ pending = None
    /\ products = <<>>
    /\ pc = "off"
    /\ results = <<>>
    /\ inv = <<>>
    /\ fs = <<>>
    /\ \E st \in HandlerPairs, p1 \in Posts, p2 \in Posts :
         req = <<NewRequest(st[1], p1), NewRequest(st[2], p2)>>

\* The response after the scan: the exception that left it, the page for
\* no products, or the spreadsheet of the records.
Response(out, empty_page) ==
    IF out.raised THEN "exception"
    ELSE IF out.value = <<>> THEN empty_page
    ELSE "xlsx"

\* index(): the checks that end the request before anything is saved.
AppRejection(post) ==
    IF post.form # "file" THEN "No file part"
    ELSE IF post.name = <<>> THEN "No selected file"
    ELSE IF ~allowed_file(post.name) THEN "Allowed file type is PDF"
    ELSE "none"

AppReject(r) ==
    /\ req[r].site = "app"
    /\ req[r].pc = "new"
    /\ AppRejection(req[r].post) # "none"
    /\ req' = [req EXCEPT ![r].pc = "done", ![r].resp = AppRejection(req[r].post)]
    /\ UNCHANGED <<sequential, inv, fs>>

\* filename = secure_filename(file.filename); file.save(filepath)
AppSave(r) ==
    /\ req[r].site = "app"
    /\ req[r].pc = "new"
    /\ AppRejection(req[r].post) = "none"
    /\ LET path == filepath(secure_filename(req[r].post.name))
       IN  /\ fs' = Written(fs, path, req[r].post.upload)
           /\ req' = [req EXCEPT ![r].pc = "saved", ![r].path = path]
    /\ UNCHANGED <<sequential, inv>>

\* products = extract_invoice_data(filepath) and the response: the file at
\* filepath is converted and the text scanned.
AppExtract(r) ==
    /\ req[r].site = "app"
    /\ req[r].pc = "saved"
    /\ LET conv == app_extract_text(fs[req[r].path])
           out == IF conv.raised THEN [raised |-> TRUE, value |-> <<>>]
                  ELSE run_alone("app", conv.text)
       IN  req' = [req EXCEPT ![r].pc = "done",
                              ![r].failed = extract_text(fs[req[r].path]).raised,
                              ![r].text = conv.text,
                              ![r].out = <<out>>,
                              ![r].resp = Response(out, "No product information found in the PDF.")]
    /\ UNCHANGED <<sequential, inv, fs>>

\* HTTPServer handles one request at a time: no other request of
\* server.py is between its save and its response.
ServerFree(r) ==
    \A q \in Requests \ {r} : ~(req[q].site = "server" /\ req[q].pc = "saved")

\* do_POST: the checks that end the request before anything is saved.
ServerRejection(post) ==
    IF post.form = "no_content_type" THEN "400 Content-Type header missing"
    ELSE IF post.form # "file" THEN "400 No file part in the request."
    ELSE IF post.name = <<>> THEN "400 No file selected."
    ELSE IF ~endswith_pdf(basename(post.name)) THEN "400 Only PDF files are allowed."
    ELSE "none"

ServerReject(r) ==
    /\ req[r].site = "server"
    /\ req[r].pc = "new"
    /\ ServerFree(r)
    /\ ServerRejection(req[r].post) # "none"
    /\ req' = [req EXCEPT ![r].pc = "done", ![r].resp = ServerRejection(req[r].post)]
    /\ UNCHANGED <<sequential, inv, fs>>

\* The upload is written to a temporary file of its own.
ServerSave(r) ==
    /\ req[r].site = "server"
    /\ req[r].pc = "new"
    /\ ServerFree(r)
    /\ ServerRejection(req[r].post) = "none"
    /\ fs' = Written(fs, tmp_pdf_path(r), req[r].post.upload)
    /\ req' = [req EXCEPT ![r].pc = "saved", ![r].path = tmp_pdf_path(r)]
    /\ UNCHANGED <<sequential, inv>>

\* text = extract_text_from_pdf(tmp_pdf_path); os.unlink(tmp_pdf_path);
\* the page for no text, or the scan and its response.
ServerExtract(r) ==
    /\ req[r].site = "server"
    /\ req[r].pc = "saved"
    /\ LET conv == extract_text_from_pdf(fs[req[r].path])
           scanned == ~conv.raised /\ strip(conv.text) # <<>>
           out == run_alone("server", conv.text)
       IN  /\ fs' = IF conv.raised THEN fs ELSE Unlinked(fs, req[r].path)
           /\ req' = [req EXCEPT
                 ![r].pc = "done",
                 ![r].failed = extract_text(fs[req[r].path]).raised,
                 ![r].text = conv.text,
                 ![r].out = IF scanned THEN <<out>> ELSE None,
                 ![r].resp =
                     IF conv.raised THEN "exception"
                     ELSE IF ~scanned THEN "500 Failed to extract text from PDF."
                     ELSE Response(out, "200 No product information found in the invoice.")]
    /\ UNCHANGED <<sequential, inv>>

WebNext ==
    \E r \in Requests :
        \/ AppReject(r)
        \/ AppSave(r)
        \/ AppExtract(r)
        \/ ServerReject(r)
        \/ ServerSave(r)
        \/ ServerExtract(r)

SpecWeb == WebInit /\ [][WebNext]_vars

\* ------------------------------------------------- notions of the claims
\* lit occurs in s.
contains(s, lit) == \E p \in 1..Len(s) : LiteralAt(s, p, lit)

\* Line k is a description line: desc_pattern matches it.
IsDescLine(k) == m_of(lines[k]) # None

\* Line k begins with 'Frame:'.
IsFrameLine(k) == is_frame(lines[k])

\* The description lines and the 'Frame:' lines among lines 1..n.
DescLines(n) == {k \in 1..n : IsDescLine(k)}
FrameLines(n) == {k \in 1..n : IsFrameLine(k)}

\* Call k has returned a record sequence.
Returned(k) == ~results[k].raised

\* The last record of a sequence.
Last(ps) == ps[Len(ps)]

\* The record that pairs description line d with frame line f.
PairRecord(d, f) ==
    [Manufacturer |-> CWS,
     FrameColor |-> Scanned[lines[f]].colour,
     SeriesID |-> m_of(lines[d])[1].SeriesID,
     WindowStyle |-> m_of(lines[d])[1].WindowStyle,
     Width |-> width(lines[f]),
     Height |-> height(lines[f])]

\* The loop is at a line that begins with 'Frame:' while pending is set.
AtQualifyingFrame == InLoop /\ qualifies(pending, lines[i])

\* ---------------------------------------------------------------- C1
\* C1: for every input text the scan returns a record sequence without
\* raising; a qualifying frame line whose 'Width =' or 'Height =' is
\* followed by characters that are no number still emits its record, with
\* that field None.
C1_NeverRaises ==
    [][/\ Len(results') > Len(results) => ~Last(results').raised
       /\ (AtQualifyingFrame /\ line_raises(lines[i])) =>
            /\ Len(products') = Len(products) + 1
            /\ raises(Scanned[lines[i]].w_match) => Last(products').Width = None
            /\ raises(Scanned[lines[i]].h_match) => Last(products').Height = None]_vars

\* ---------------------------------------------------------------- C2
\* C2, first sentence: a record is emitted only at a line beginning with
\* 'Frame:', and it carries the series ID and window style of the latest
\* description line before that line, with no other 'Frame:' line between
\* the two.
C2_RecordFromLatestDescription ==
    [][(pc = "loop" /\ Len(products') > Len(products)) =>
        /\ IsFrameLine(i)
        /\ DescLines(i - 1) # {}
        /\ LET d == Max(DescLines(i - 1))
           IN  /\ \A k \in (d + 1)..(i - 1) : ~IsFrameLine(k)
               /\ Last(products').SeriesID = m_of(lines[d])[1].SeriesID
               /\ Last(products').WindowStyle = m_of(lines[d])[1].WindowStyle]_vars

\* C2, both sentences; the second one reads: at a frame line that follows
\* two description lines, exactly one record is emitted, built from the
\* second description.
C2_LatestDescriptionWins ==
    [][/\ (pc = "loop" /\ Len(products') > Len(products)) =>
            /\ IsFrameLine(i)
            /\ DescLines(i - 1) # {}
            /\ LET d == Max(DescLines(i - 1))
               IN  /\ \A k \in (d + 1)..(i - 1) : ~IsFrameLine(k)
                   /\ Last(products').SeriesID = m_of(lines[d])[1].SeriesID
                   /\ Last(products').WindowStyle = m_of(lines[d])[1].WindowStyle
       /\ (InLoop /\ i >= 3 /\ IsFrameLine(i) /\ IsDescLine(i - 1) /\ IsDescLine(i - 2)) =>
            /\ products' = Append(products, PairRecord(i - 1, i))]_vars

\* ---------------------------------------------------------------- C3
\* C3: in a returned result, every description line that is followed by a
\* line beginning with 'Frame:' has a record with its series ID and window
\* style and the width, height and colour of the first such line after it.
C3_EachDescriptionPaired ==
    (pc = "call" /\ Len(results) > 0 /\ Returned(Len(results))) =>
        \A d \in DescLines(Len(lines)) :
            (\E f \in (d + 1)..Len(lines) : IsFrameLine(f)) =>
                LET f == Min({k \in (d + 1)..Len(lines) : IsFrameLine(k)})
                    ps == results[Len(results)].value
                IN  \E r \in 1..Len(ps) : ps[r] = PairRecord(d, f)

\* ---------------------------------------------------------------- C4
\* C4: of the lines beginning with 'Frame:' that follow a description line
\* with no description line in between, the first emits exactly one record
\* (from that description, and pending is cleared) and the later ones emit
\* nothing.
C4_OneRecordPerDescription ==
    [][(InLoop /\ IsFrameLine(i) /\ DescLines(i - 1) # {}) =>
        LET d == Max(DescLines(i - 1))
        IN  IF \A k \in (d + 1)..(i - 1) : ~IsFrameLine(k)
            THEN /\ Len(products') = Len(products) + 1
                 /\ Last(products').SeriesID = m_of(lines[d])[1].SeriesID
                 /\ Last(products').FrameColor = Scanned[lines[i]].colour
                 /\ pending' = None
            ELSE products' = products]_vars

\* ---------------------------------------------------------------- C5
\* C5: at every point of the scan and in every returned result, the number
\* of records is at most the number of description lines matched so far and
\* at most the number of lines beginning with 'Frame:' seen so far.
C5_RecordsAtMostDescriptions ==
    /\ pc = "loop" =>
        /\ Len(products) <= Cardinality(DescLines(i - 1))
        /\ Len(products) <= Cardinality(FrameLines(i - 1))
    /\ \A k \in 1..Len(results) :
        /\ Len(results[k].value) <= Cardinality(DescLines(Len(lines)))
        /\ Len(results[k].value) <= Cardinality(FrameLines(Len(lines)))

\* One description line and two 'Frame:' lines have been passed, and one
\* record emitted.
C5_Witness ==
    /\ pc = "loop"
    /\ i = 4
    /\ Cardinality(DescLines(3)) = 1
    /\ Cardinality(FrameLines(3)) = 2
    /\ Len(products) = 1

\* ---------------------------------------------------------------- C6
\* The loop is at a line that begins with 'Frame:' while pending is empty,
\* or at a line that is neither a description line nor a qualifying frame
\* line.
AtIgnoredLine ==
    /\ InLoop
    /\ \/ (pending = None /\ IsFrameLine(i))
       \/ (~IsDescLine(i) /\ ~qualifies(pending, lines[i]))

\* C6: such a line leaves pending and the records unchanged and raises
\* nothing; the scan goes on with the next line in the state it had.
C6_IgnoredLineChangesNothing ==
    [][AtIgnoredLine =>
        /\ pending' = pending
        /\ products' = products
        /\ results' = results
        /\ pc' = "loop"
        /\ i' = i + 1]_vars

\* A 'Frame:' line met with pending empty and a line of neither kind met
\* with pending set were passed, and the pair around them was extracted.
C6_Witness ==
    /\ pc = "call"
    /\ Len(results) > 0
    /\ Len(lines) = 4
    /\ IsFrameLine(1)
    /\ IsDescLine(2)
    /\ lines[3] # <<>> /\ ~IsDescLine(3) /\ ~IsFrameLine(3)
    /\ IsFrameLine(4)
    /\ Returned(Len(results))
    /\ results[Len(results)].value = <<PairRecord(2, 4)>>

\* ---------------------------------------------------------------- C7
\* C7: a qualifying frame line that lacks 'Width =' or lacks 'Height ='
\* still emits a record and clears pending; the missing field is None and
\* the field that is present keeps its numeric value.
C7_MissingFieldIsNone ==
    [][(/\ AtQualifyingFrame
        /\ (~contains(lines[i], WIDTH) \/ ~contains(lines[i], HEIGHT))) =>
            /\ Len(products') = Len(products) + 1
            /\ pending' = None
            /\ ~contains(lines[i], WIDTH) => Last(products').Width = None
            /\ ~contains(lines[i], HEIGHT) => Last(products').Height = None
            /\ Scanned[lines[i]].w_match # None =>
                Last(products').Width = float(Scanned[lines[i]].w_match[1])
            /\ Scanned[lines[i]].h_match # None =>
                Last(products').Height = float(Scanned[lines[i]].h_match[1])]_vars

\* ---------------------------------------------------------------- C8
\* C8: inside a call the loop position only advances, the records are only
\* ever appended at the end, the appended record is the one of the line
\* the loop is at, and the call returns the records in that order.
C8_AppendOnlyInDocumentOrder ==
    [][/\ pc = "loop" =>
            /\ i' >= i
            /\ \/ products' = products
               \/ /\ Len(products') = Len(products) + 1
                  /\ SubSeq(products', 1, Len(products)) = products
                  /\ IsFrameLine(i)
                  /\ Last(products').FrameColor = Scanned[lines[i]].colour
                  /\ Last(products').Width = width(lines[i])
                  /\ Last(products').Height = height(lines[i])
                  /\ i' = i + 1
       /\ (Len(results') > Len(results) /\ ~Last(results').raised) =>
            Last(results').value = products]_vars

\* A call has returned two different records, the first from the earlier
\* frame line.
C8_Witness ==
    /\ pc = "call"
    /\ Len(results) > 0
    /\ Returned(Len(results))
    /\ Len(lines) = 4
    /\ IsDescLine(1) /\ IsFrameLine(2) /\ IsDescLine(3) /\ IsFrameLine(4)
    /\ PairRecord(1, 2) # PairRecord(3, 4)
    /\ results[Len(results)].value = <<PairRecord(1, 2), PairRecord(3, 4)>>

\* ---------------------------------------------------------------- C9
\* The text is empty, or has no description line, or has no line beginning
\* with 'Frame:' after any description line.
NothingToPair ==
    \/ text = <<>>
    \/ DescLines(Len(lines)) = {}
    \/ \A d \in DescLines(Len(lines)) :
        \A f \in (d + 1)..Len(lines) : ~IsFrameLine(f)

\* C9: on such a text every call returns the empty sequence, without error.
C9_EmptyWhenNothingToPair ==
    \A k \in 1..Len(results) :
        NothingToPair => (Returned(k) /\ results[k].value = <<>>)

\* A call has returned the empty sequence on a text that has a 'Frame:'
\* line and, after it, a description line.
C9_Witness ==
    /\ Len(results) > 0
    /\ NothingToPair
    /\ \E d \in DescLines(Len(lines)) : FrameLines(d - 1) # {}
    /\ results[1] = [raised |-> FALSE, value |-> <<>>]

\* --------------------------------------------------------------- C10
\* C10: all calls on the same text have the same outcome: nothing of one
\* call survives into the next.
C10_SameResultEveryCall ==
    \A a, b \in 1..Len(results) : results[a] = results[b]

\* Two calls have returned the same records, and the first one ended with
\* a description still pending.
C10_Witness ==
    /\ Len(results) >= 2
    /\ pc = "call"
    /\ pending # None
    /\ Returned(1)
    /\ results[1].value # <<>>
    /\ results[2] = results[1]

\* ---------------------------------------------------------------- C14
\* The records a call holds and the records the finished calls returned.
EmittedRecords ==
    {products[k] : k \in 1..Len(products)}
    \cup UNION {{results[c].value[k] : k \in 1..Len(results[c].value)} :
                 c \in 1..Len(results)}

\* C14: every emitted record has manufacturer 'CWS', whatever the input
\* text contains.
C14_ManufacturerIsCWS == \A r \in EmittedRecords : r.Manufacturer = CWS

\* A call has returned two records whose colours differ from 'CWS'.
C14_Witness ==
    \E c \in 1..Len(results) :
        /\ Len(results[c].value) = 2
        /\ \A k \in 1..2 : results[c].value[k].FrameColor # CWS

\* ---------------------------------------------------------------- C19
\* C19: the scan is a single forward pass: every step of the for loop
\* examines line i and moves to line i + 1, so that each line is examined
\* once and in document order; a line appends at most one record; and the
\* scan ends only when the position has passed the last line.
C19_SingleForwardPass ==
    [][pc = "loop" =>
         /\ lines' = lines
         /\ Len(products') <= Len(products) + 1
         /\ \/ i <= Len(lines) /\ i' = i + 1 /\ pc' = "loop"
            \/ i > Len(lines) /\ i' = i /\ pc' = "call"]_vars

\* ---------------------------------------------------------------- C11
\* Call p is over.
Over(p) == inv[p].pc = "done"

\* C11: with the steps of the calls interleaved in any order, each call
\* ends with the outcome it has when run alone on its own text.
C11_EachCallAsIfAlone ==
    \A p \in Calls : Over(p) => inv[p].out[1] = run_alone(inv[p].site, inv[p].text)

\* Both calls are over and each has returned one record, of a different
\* description.
C11_Witness ==
    /\ Over(1) /\ Over(2)
    /\ ~inv[1].out[1].raised /\ ~inv[2].out[1].raised
    /\ Len(inv[1].out[1].value) = 1
    /\ Len(inv[2].out[1].value) = 1
    /\ inv[1].out[1].value[1].SeriesID # inv[2].out[1].value[1].SeriesID

\* ---------------------------------------------------------------- C12
\* The part of s after its last comma (all of s when it has none), with
\* the whitespace around it removed.
LastSegment(s) ==
    LET commas == {k \in 1..Len(s) : s[k] = ","}
        from == IF commas = {} THEN 1 ELSE Max(commas) + 1
    IN  strip(SubSeq(s, from, Len(s)))

\* Call p is at a frame line while its pending is set.
PairAtQualifyingFrame(p) ==
    /\ PairInLoop(p)
    /\ line_of(p) # <<>>
    /\ MatchOf(inv[p].site, line_of(p)) = None
    /\ Qualifies(inv[p].site, pending_of(p), line_of(p))

\* C12: a call that takes its step at a qualifying frame line emits a
\* record whose colour is the last comma-separated segment of the line,
\* stripped: the empty string when that segment is whitespace only.
C12_ColourIsLastSegment ==
    [][\A p \in Calls :
         (PairAtQualifyingFrame(p) /\ inv'[p] # inv[p]) =>
            /\ Len(inv'[p].products) = Len(inv[p].products) + 1
            /\ Last(inv'[p].products).FrameColor = LastSegment(line_of(p))]_vars

\* ---------------------------------------------------------------- C13
\* The text of the second call is the text of the first with an empty or
\* whitespace-only line inserted, or with whitespace added at the start,
\* at the end or at both ends of one line.
PaddedPair == <<inv[1].text, inv[2].text>> \in PadPairs

\* C13: inserting empty or whitespace-only lines, or adding leading or
\* trailing whitespace to a line, does not change the outcome of the scan.
C13_PaddingChangesNothing ==
    (PaddedPair /\ Over(1) /\ Over(2)) => inv[1].out = inv[2].out

\* Both calls have returned one record, the second from a text with
\* whitespace added to a line of the text of the first.
C13_Witness ==
    /\ PaddedPair /\ Over(1) /\ Over(2)
    /\ inv[1].text # inv[2].text
    /\ Len(inv[1].lines) = Len(inv[2].lines)
    /\ ~inv[2].out[1].raised
    /\ Len(inv[2].out[1].value) = 1

\* ---------------------------------------------------------------- C15
\* The text of the second call is the text of the first with the word
\* 'Series' of one description line in another letter case.
RespelledPair == <<inv[1].text, inv[2].text>> \in CasePairs

\* Four digits followed by ' Series'.
IsSeriesID(s) ==
    /\ Len(s) = 4 + Len(SERIES_SUFFIX)
    /\ AllDigit(s, 1, 4)
    /\ SubSeq(s, 5, Len(s)) = <<" ", "S", "e", "r", "i", "e", "s">>

\* C15: texts that differ only in the letter case of 'Series' on their
\* description lines have the same outcome, and the series ID of every
\* record is the four digits followed by ' Series'.
C15_SeriesCaseChangesNothing ==
    /\ (RespelledPair /\ Over(1) /\ Over(2)) => inv[1].out = inv[2].out
    /\ \A p \in Calls : \A k \in 1..Len(inv[p].products) :
           IsSeriesID(inv[p].products[k].SeriesID)

\* Both calls have returned one record, the second from a text that spells
\* 'Series' differently.
C15_Witness ==
    /\ RespelledPair /\ Over(1) /\ Over(2)
    /\ inv[1].text # inv[2].text
    /\ ~inv[2].out[1].raised
    /\ Len(inv[2].out[1].value) = 1

\* ---------------------------------------------------------------- C16
\* The first call runs parse_products_from_text and the second the loop of
\* extract_invoice_data, on the same text.
CopiesOnSameText ==
    /\ inv[1].site = "server"
    /\ inv[2].site = "app"
    /\ inv[1].text = inv[2].text

\* C16: on the same text the two copies of the scan have, after the same
\* number of lines, the same lines, the same pending value and the same
\* record sequence, and they end with the same outcome.
C16_CopiesEquivalent ==
    CopiesOnSameText =>
        /\ (inv[1].pc = inv[2].pc /\ inv[1].i = inv[2].i) =>
              /\ inv[1].lines = inv[2].lines
              /\ inv[1].pending = inv[2].pending
              /\ inv[1].products = inv[2].products
        /\ (Over(1) /\ Over(2)) => inv[1].out = inv[2].out

\* Both copies are past a description line and its frame line of the same
\* text, with one record each.
C16_Witness ==
    /\ CopiesOnSameText
    /\ inv[1].pc = "loop" /\ inv[2].pc = "loop"
    /\ inv[1].i = 3 /\ inv[2].i = 3
    /\ Len(inv[1].products) = 1 /\ Len(inv[2].products) = 1

\* ---------------------------------------------------------------- C17
\* Request r was handled by index() of app.py and got past the save.
Extracted(r) == req[r].site = "app" /\ req[r].pc = "done" /\ req[r].out # None

\* What index() extracts from the file request r uploaded.
OwnOutcome(r) == run_alone("app", app_extract_text(req[r].post.upload).text)

\* C17: each request handled by index() of app.py gets the records
\* extracted from the file it uploaded, also when another request saves a
\* file of the same sanitized name between its save and its extraction.
C17_RecordsFromOwnUpload ==
    \A r \in Requests : Extracted(r) => req[r].out[1] = OwnOutcome(r)

\* ---------------------------------------------------------------- C18
\* The conversion of the file of request r raised.
ConversionFailed(r) == req[r].pc = "done" /\ req[r].failed

\* C18: when extract_text raises, the text is the empty string, the scan
\* of it gives zero records, and the request ends with a page, not with an
\* exception and not with a spreadsheet, in app.py and in server.py.
C18_FailedConversionGivesNothing ==
    \A r \in Requests :
        ConversionFailed(r) =>
            /\ req[r].text = <<>>
            /\ run_alone(req[r].site, req[r].text) = [raised |-> FALSE, value |-> <<>>]
            /\ req[r].out \in {None, <<[raised |-> FALSE, value |-> <<>>]>>}
            /\ req[r].resp \in {"No product information found in the PDF.",
                                "500 Failed to extract text from PDF."}

\* A request of app.py and a request of server.py have both ended after
\* their conversions raised.
C18_Witness ==
    /\ req[1].site = "app" /\ req[2].site = "server"
    /\ ConversionFailed(1) /\ ConversionFailed(2)

============================================================================
